---- MODULE Spec2Model ----
(***************************************************************************)
(* Verification model of the CultivateFood tract-map scripts               *)
(* (PythonCode3.py, PythonCode2.py, PythonCode.py, pythonScrape1.py).      *)
(*                                                                         *)
(* Strings are sequences of one-character strings.  A float is a record    *)
(* [kind |-> "float", n, d] standing for the exact rational n / d (d > 0), *)
(* NaN and +infinity are [kind |-> "nan"] and [kind |-> "inf"], Python's   *)
(* None is [kind |-> "None"].                                              *)
(*                                                                         *)
(* Each component of the batch pipeline has its own specification          *)
(* (SpecNorm, SpecPoverty, SpecMerge, SpecMetrics); the variables of the   *)
(* other components stay at their idle values.                             *)
(***************************************************************************)
EXTENDS Integers, Sequences, FiniteSets, TLC

VARIABLES
    rawNAME,      \* a NAME cell as read from the shapefile / CSV
    NAME,         \* the NAME cell as currently stored in the column
    normCalls,    \* how many times the NAME column was mapped through norm_tract_name
    POVERTY,      \* a POVERTY cell of the merged table (None or text)
    PovertyNum,   \* PythonCode3: df["PovertyNum"] for that row
    PovertyPct,   \* PythonCode3: merged_gdf["PovertyPct"] for that row
    PovertyNum2,  \* PythonCode2: gdf["PovertyNum"] for that row
    pcPov,        \* position of PythonCode3 in the poverty steps
    c_county,     \* the reference polygons of one county (c_elkhart, ...)
    dfs,          \* the attribute tables merged onto them, in merge order
    Counties,     \* the merged table of that county (Counties_1, ...)
    pcMerge,      \* position of PythonCode3 in the merge steps
    rawCOUNTYFP,  \* the COUNTYFP column as read from the tract file
    COUNTYFP,     \* the COUNTYFP column as currently stored
    filtered,     \* the tracts kept by the county filter (row numbers)
    pcCounty,     \* position of the script in the county filter steps
    pantryFile,   \* the pantry CSV as it is on disk
    pantries,     \* the pantries frame
    lat,          \* the list lat of the geocode loop
    lon,          \* the list lon of the geocode loop
    calls,        \* the lookups the geocoding provider has received, in order
    pantries_gdf, \* the pantry points
    pantries_buf, \* the coverage buffers
    markers,      \* the pantry markers put on the map
    pcPantry,     \* position of PythonCode3 in the pantry steps
    files,        \* the source files in the working directory
    script,       \* the map script that runs, or ran last
    ran,          \* the scripts that were started
    pcLayers,     \* position of that script in its layer steps
    layers,       \* the layers the run has prepared for its map
    warned,       \* the warnings the run has issued
    assumed,      \* the reference systems assumed for layers declaring none
    outcome,      \* how the run ended
    acsCall,      \* the call of fetch_acs that is made
    frames,       \* the list frames of fetch_acs
    requests,     \* the requests sent so far, each with its response
    acsResult,    \* what the caller of fetch_acs receives
    pcAcs         \* position inside fetch_acs

normVars == <<rawNAME, NAME, normCalls>>
povVars  == <<POVERTY, PovertyNum, PovertyPct, PovertyNum2, pcPov>>
mergeVars == <<c_county, dfs, Counties, pcMerge>>
countyVars == <<rawCOUNTYFP, COUNTYFP, filtered, pcCounty>>
pantryVars == <<pantryFile, pantries, lat, lon, calls, pantries_gdf, pantries_buf,
                markers, pcPantry>>
layerVars == <<files, script, ran, pcLayers, layers, warned, assumed, outcome>>
acsVars  == <<acsCall, frames, requests, acsResult, pcAcs>>
vars     == <<normVars, povVars, mergeVars, countyVars, pantryVars, layerVars, acsVars>>
\* what the steps of one component leave alone
notNorm  == <<povVars, mergeVars, countyVars, pantryVars, layerVars, acsVars>>
notPov   == <<normVars, mergeVars, countyVars, pantryVars, layerVars, acsVars>>
notMerge == <<normVars, povVars, countyVars, pantryVars, layerVars, acsVars>>
notCounty == <<normVars, povVars, mergeVars, pantryVars, layerVars, acsVars>>
notPantry == <<normVars, povVars, mergeVars, countyVars, layerVars, acsVars>>
notLayers == <<normVars, povVars, mergeVars, countyVars, pantryVars, acsVars>>
notAcs    == <<normVars, povVars, mergeVars, countyVars, pantryVars, layerVars>>

(***************************************************************************)
(* Bounds of the model                                                     *)
(***************************************************************************)
MaxNameLen   == 4
MaxTextLen   == 4
MaxNormCalls == 2
MaxRef       == 3
MaxAttrRows  == 2
MaxTables    == 2
MaxMetricRows == 2
MaxTracts    == 2
MaxPantries  == 2
MaxAcsRows   == 2

(***************************************************************************)
(* Values                                                                  *)
(***************************************************************************)
None  == [kind |-> "None"]
NaN   == [kind |-> "nan"]
Inf   == [kind |-> "inf"]
Unset == [kind |-> "unset"]
Raised(e) == [kind |-> "raise", error |-> e]
Float(n, d) == [kind |-> "float", n |-> n, d |-> d]
Str(s) == [kind |-> "str", s |-> s]

IsFloat(v) == v.kind = "float"
\* exact comparison of two floats
FloatEq(a, b) == a.n * b.d = b.n * a.d
FloatLe(a, b) == a.n * b.d <= b.n * a.d

Range(s) == {s[i] : i \in 1..Len(s)}

RECURSIVE Pow10(_)
Pow10(k) == IF k = 0 THEN 1 ELSE 10 * Pow10(k - 1)

StringsUpTo(chars, n) == UNION {[1..k -> chars] : k \in 0..n}

(***************************************************************************)
(* Character classes of Python's re and str                                *)
(***************************************************************************)
DigitChars == <<"0", "1", "2", "3", "4", "5", "6", "7", "8", "9">>
Digits     == Range(DigitChars)
Whitespace == {" "}
DigitVal(c) == (CHOOSE i \in 1..10 : DigitChars[i] = c) - 1

\* str.lstrip(chars) / str.rstrip(chars) / str.strip()
RECURSIVE lstrip(_, _)
lstrip(s, chars) ==
    IF s = <<>> \/ Head(s) \notin chars THEN s ELSE lstrip(Tail(s), chars)

RECURSIVE rstrip(_, _)
rstrip(s, chars) ==
    IF s = <<>> \/ s[Len(s)] \notin chars THEN s
    ELSE rstrip(SubSeq(s, 1, Len(s) - 1), chars)

strip(s) == rstrip(lstrip(s, Whitespace), Whitespace)

\* \d+
IsDigitRun(s) == Len(s) > 0 /\ \A i \in 1..Len(s) : s[i] \in Digits

\* re.fullmatch(r"\d+(\.\d+)?", s)
fullmatch_decimal(s) ==
    \/ IsDigitRun(s)
    \/ \E i \in 1..Len(s) :
          /\ s[i] = "."
          /\ IsDigitRun(SubSeq(s, 1, i - 1))
          /\ IsDigitRun(SubSeq(s, i + 1, Len(s)))

(***************************************************************************)
(* norm_tract_name (PythonCode3.py:38-49)                                  *)
(***************************************************************************)
\* a slip that drops the "if '.' in s" guard of line 46
norm_tract_name_unguarded(x) ==
    LET s == strip(x)
        t == rstrip(rstrip(s, {"0"}), {"."})
    IN  IF fullmatch_decimal(s) THEN (IF t = <<>> THEN <<"0">> ELSE t) ELSE s

\* a slip that strips a single trailing zero instead of all of them
norm_tract_name_onezero(x) ==
    LET s == strip(x)
        t == IF "." \in Range(s)
             THEN rstrip(IF s[Len(s)] = "0" THEN SubSeq(s, 1, Len(s) - 1) ELSE s, {"."})
             ELSE s
    IN  IF fullmatch_decimal(s) THEN (IF t = <<>> THEN <<"0">> ELSE t) ELSE s

norm_tract_name(x) ==
    LET s == strip(x)
        t == IF "." \in Range(s) THEN rstrip(rstrip(s, {"0"}), {"."}) ELSE s
    IN  IF fullmatch_decimal(s) THEN (IF t = <<>> THEN <<"0">> ELSE t) ELSE s

NameChars    == {"0", "1", ".", " ", "a"}
NameExamples == { <<"1","1","3",".","1","0">>, <<"1","0","1",".","0","2">>,
                  <<"1","0","0">>, <<" ","1","0","0",".","0","0"," ">> }
NameInputs   == StringsUpTo(NameChars, MaxNameLen) \cup NameExamples

IdleNorm == rawNAME = <<>> /\ NAME = <<>> /\ normCalls = 0

InitNorm == /\ rawNAME \in NameInputs
            /\ NAME = rawNAME
            /\ normCalls = 0

\* tracts["NAME"] = tracts["NAME"].astype(str).map(norm_tract_name)   (line 69)
\* d["NAME"] = d["NAME"].astype(str).map(norm_tract_name)             (line 114)
NormalizeNAME ==
    /\ normCalls < MaxNormCalls
    /\ NAME' = norm_tract_name(NAME)
    /\ normCalls' = normCalls + 1
    /\ UNCHANGED <<rawNAME, notNorm>>

(***************************************************************************)
(* parse_number (PythonCode3.py:28-36), percent_to_float (PythonCode2:51)  *)
(***************************************************************************)
\* a variant that keeps a minus sign only at the head of what is kept
re_sub_leading_minus(s) ==
    LET r == SelectSeq(s, LAMBDA c : c \in Digits \cup {".", "-"})
    IN  IF r = <<>> THEN <<>>
        ELSE <<r[1]>> \o SelectSeq(Tail(r), LAMBDA c : c # "-")

\* re.sub(r"[^\d\.\-]", "", s): keeps digits, points and every minus sign
RECURSIVE re_sub_non_numeric(_)
re_sub_non_numeric(s) ==
    IF s = <<>> THEN <<>>
    ELSE IF Head(s) \in Digits \cup {".", "-"}
         THEN <<Head(s)>> \o re_sub_non_numeric(Tail(s))
         ELSE re_sub_non_numeric(Tail(s))

\* value of a run of digits read as a base-10 integer
RECURSIVE DigitsValue(_)
DigitsValue(s) ==
    IF s = <<>> THEN 0
    ELSE 10 * DigitsValue(SubSeq(s, 1, Len(s) - 1)) + DigitVal(s[Len(s)])

SelectDigits(s) == SelectSeq(s, LAMBDA c : c \in Digits)

\* Python float(s) for s made of digits, '.' and '-':
\*   [-] digits [ . [digits] ]  |  [-] . digits ; anything else is ValueError
float(s) ==
    LET neg  == s # <<>> /\ Head(s) = "-"
        body == IF neg THEN Tail(s) ELSE s
        dots == {i \in 1..Len(body) : body[i] = "."}
        ok   == /\ \A i \in 1..Len(body) : body[i] \in Digits \cup {"."}
                /\ Cardinality(dots) <= 1
                /\ \E i \in 1..Len(body) : body[i] \in Digits
        frac == IF dots = {} THEN 0 ELSE Len(body) - (CHOOSE i \in dots : TRUE)
        mag  == DigitsValue(SelectDigits(body))
    IN  IF ok THEN Float(IF neg THEN 0 - mag ELSE mag, Pow10(frac))
        ELSE Raised("ValueError")

\* a slip that lets the ValueError of float() escape
parse_number_nocatch(x) ==
    IF x = None THEN None ELSE float(re_sub_non_numeric(x.s))

parse_number(x) ==
    IF x = None THEN None
    ELSE LET r == float(re_sub_non_numeric(x.s))
         IN  IF r.kind = "raise" THEN None ELSE r

\* pd.to_numeric(Series(s).astype(str).str.replace(r"[^0-9.\-]", ""), errors="coerce")
percent_to_float(x) ==
    LET r == float(re_sub_non_numeric(IF x = None THEN <<"N","o","n","e">> ELSE x.s))
    IN  IF r.kind = "raise" THEN NaN ELSE r

\* pd.to_numeric(column, errors="coerce") on a column of floats and None
to_numeric(v) == IF IsFloat(v) THEN v ELSE NaN

\* threshold of line 207: 1.5 = 3 / 2
FractionThreshold == Float(3, 2)

\* a slip that excludes the boundary (pn < 1.5)
scale_poverty_strict(pn) ==
    IF IsFloat(pn) /\ FloatLe(pn, FractionThreshold) /\ ~FloatEq(pn, FractionThreshold)
    THEN Float(pn.n * 100, pn.d) ELSE pn

\* np.where(pn <= 1.5, pn * 100, pn); NaN <= 1.5 is False
scale_poverty(pn) ==
    IF IsFloat(pn) /\ FloatLe(pn, FractionThreshold)
    THEN Float(pn.n * 100, pn.d) ELSE pn

TextChars    == {"0", "1", ".", "-", "%"}
TextExamples == { <<"$","5","6",",","1","2","3">>, <<"1","2",".","3","%">>,
                  <<"0",".","1","8">>, <<"1","8",".","0">>, <<"1",".","5">>,
                  <<"1",".","2","%">> }
TextInputs   == StringsUpTo(TextChars, MaxTextLen) \cup TextExamples

IdlePov == /\ POVERTY = None /\ PovertyNum = Unset /\ PovertyPct = Unset
           /\ PovertyNum2 = Unset /\ pcPov = "idle"

InitPov == /\ POVERTY \in {None} \cup {Str(s) : s \in TextInputs}
           /\ PovertyNum = Unset
           /\ PovertyPct = Unset
           /\ PovertyNum2 = Unset
           /\ pcPov = "merged"

\* df["PovertyNum"] = df.get("POVERTY", ...).apply(parse_number)      (line 184)
ParsePoverty ==
    /\ pcPov = "merged"
    /\ PovertyNum' = parse_number(POVERTY)
    /\ pcPov' = "parsed"
    /\ UNCHANGED <<POVERTY, PovertyPct, PovertyNum2, notPov>>

\* pn = pd.to_numeric(merged_gdf["PovertyNum"], errors="coerce")
\* merged_gdf["PovertyPct"] = np.where(pn <= 1.5, pn * 100, pn)   (lines 206-207)
ScalePoverty ==
    /\ pcPov = "parsed"
    /\ PovertyPct' = scale_poverty(to_numeric(PovertyNum))
    /\ pcPov' = "scaled"
    /\ UNCHANGED <<POVERTY, PovertyNum, PovertyNum2, notPov>>

\* PythonCode2: gdf["PovertyNum"] = percent_to_float(gdf["POVERTY"])   (line 58)
PercentToFloat ==
    /\ pcPov # "idle"
    /\ PovertyNum2 = Unset
    /\ PovertyNum2' = percent_to_float(POVERTY)
    /\ UNCHANGED <<POVERTY, PovertyNum, PovertyPct, pcPov, notPov>>

(***************************************************************************)
(* Tables: [columns |-> set of column names, rows |-> sequence of rows],   *)
(* a row being a function from the columns to cells.  A NAME cell is a     *)
(* string, a geometry cell is the identity of a polygon, any other cell is *)
(* a float or NaN.                                                         *)
(***************************************************************************)
Table(cols, rows) == [kind |-> "table", columns |-> cols, rows |-> rows]

RECURSIVE FlattenRows(_)
FlattenRows(ss) == IF ss = <<>> THEN <<>> ELSE Head(ss) \o FlattenRows(Tail(ss))

\* the rows a left row gives in out.merge(d, on="NAME", how="left"): one per
\* matching row of d, in d's order, or one with NaN in d's columns
LeftJoinRow(l, d) ==
    LET new     == d.columns \ {"NAME"}
        matches == SelectSeq(d.rows, LAMBDA r : r["NAME"] = l["NAME"])
        joined(r) == [c \in DOMAIN l \cup new |-> IF c \in DOMAIN l THEN l[c] ELSE r[c]]
        alone   == [c \in DOMAIN l \cup new |-> IF c \in DOMAIN l THEN l[c] ELSE NaN]
    IN  IF matches = <<>> THEN <<alone>>
        ELSE [k \in 1..Len(matches) |-> joined(matches[k])]

\* a slip that joins with how="inner": unmatched polygons are dropped
merge_inner(out, d) ==
    Table(out.columns \cup (d.columns \ {"NAME"}),
          FlattenRows([i \in 1..Len(out.rows) |->
              IF \E k \in 1..Len(d.rows) : d.rows[k]["NAME"] = out.rows[i]["NAME"]
              THEN LeftJoinRow(out.rows[i], d) ELSE <<>>]))

\* out.merge(d, on="NAME", how="left")  (no column but NAME is shared)
merge_left(out, d) ==
    Table(out.columns \cup (d.columns \ {"NAME"}),
          FlattenRows([i \in 1..Len(out.rows) |-> LeftJoinRow(out.rows[i], d)]))

\* a slip that skips a table without NAME instead of raising
RECURSIVE merge_loop_skipping(_, _, _)
merge_loop_skipping(out, ds, i) ==
    IF i > Len(ds) THEN out
    ELSE IF "NAME" \in ds[i].columns
         THEN merge_loop_skipping(merge_left(out, ds[i]), ds, i + 1)
         ELSE merge_loop_skipping(out, ds, i + 1)

\* the loop of merge_chain from its i-th table on (lines 122-127)
RECURSIVE merge_loop(_, _, _)
merge_loop(out, ds, i) ==
    IF i > Len(ds) THEN out
    ELSE IF "NAME" \in ds[i].columns
         THEN merge_loop(merge_left(out, ds[i]), ds, i + 1)
         ELSE Raised("ValueError")

\* merge_chain(sf_gdf, *dfs): the merged table, or the error raised
merge_chain(sf_gdf, ds) == merge_loop(sf_gdf, ds, 1)

\* d["NAME"] = d["NAME"].astype(str).map(norm_tract_name), when d has NAME
normalize_table(d) ==
    IF "NAME" \in d.columns
    THEN Table(d.columns,
               [i \in 1..Len(d.rows) |->
                   [d.rows[i] EXCEPT !["NAME"] = norm_tract_name(@)]])
    ELSE d

(***************************************************************************)
(* safe_sum and add_age_metrics (PythonCode3.py:140-163)                   *)
(***************************************************************************)
u18_cols ==
    { "Male..Under.5.years.x", "Male..5.to.9.years", "Male..10.to.14.years",
      "Male..15.to.17.years", "Female..Under.5.years.x", "Female..5.to.9.years",
      "Female..10.to.14.years", "Female..15.to.17.years" }
o65_cols ==
    { "Male..65.and.66.years", "Male..67.to.69.years", "Male..70.to.74.years",
      "Male..75.to.79.years", "Male..80.to.84.years", "Male..85.years.and.over",
      "Female..65.and.66.years", "Female..67.to.69.years", "Female..70.to.74.years",
      "Female..75.to.79.years", "Female..80.to.84.years", "Female..85.years.and.over" }

FloatAdd(a, b) == Float(a.n * b.d + b.n * a.d, a.d * b.d)

\* DataFrame.sum(axis=1) of one row: NaN cells are skipped, an all-NaN row sums to 0
RECURSIVE row_sum(_, _)
row_sum(row, use) ==
    IF use = {} THEN Float(0, 1)
    ELSE LET c == CHOOSE c \in use : TRUE
             rest == row_sum(row, use \ {c})
         IN  IF IsFloat(to_numeric(row[c])) THEN FloatAdd(to_numeric(row[c]), rest) ELSE rest

\* safe_sum(df, cols): one value per row
safe_sum(df, cols) ==
    LET use == cols \cap df.columns
    IN  [i \in 1..Len(df.rows) |-> IF use = {} THEN NaN ELSE row_sum(df.rows[i], use)]

\* float division of pandas: x / 0 is +-inf, 0 / 0 and anything with NaN is NaN
FloatDiv(a, b) ==
    IF ~IsFloat(a) \/ ~IsFloat(b) THEN NaN
    ELSE IF b.n = 0 THEN (IF a.n = 0 THEN NaN
                          ELSE IF a.n > 0 THEN Inf ELSE [kind |-> "-inf"])
    ELSE IF b.n > 0 THEN Float(a.n * b.d, a.d * b.n)
    ELSE Float(0 - a.n * b.d, 0 - a.d * b.n)

Times100(v) == IF IsFloat(v) THEN Float(v.n * 100, v.d) ELSE v

\* (df["Under_18"] / total) * 100
percent_of_total(part, total) == Times100(FloatDiv(part, total))

\* add_age_metrics(df)
add_age_metrics(df) ==
    LET Under_18 == safe_sum(df, u18_cols)
        Over_65  == safe_sum(df, o65_cols)
        total(i) == IF "Total" \in df.columns THEN to_numeric(df.rows[i]["Total"]) ELSE NaN
        added    == {"Under_18", "Over_65", "Under_18Per", "Over_65Per"}
        value(i, c) ==
            CASE c = "Under_18"    -> Under_18[i]
              [] c = "Over_65"     -> Over_65[i]
              [] c = "Under_18Per" -> percent_of_total(Under_18[i], total(i))
              [] c = "Over_65Per"  -> percent_of_total(Over_65[i], total(i))
              [] OTHER             -> df.rows[i][c]
    IN  Table(df.columns \cup added,
              [i \in 1..Len(df.rows) |-> [c \in df.columns \cup added |-> value(i, c)]])

(***************************************************************************)
(* The merge steps of one county                                           *)
(***************************************************************************)
\* tract names of the shapefile and of the CSV extracts, as written there
RefNames  == { <<"1">>, <<"2">>, <<"3",".","0">> }
AttrNames == { <<"1",".","0">>, <<"3">> }
\* the column the i-th attribute table brings
AttrColumn == << "Total", "Male..5.to.9.years", "Male..65.and.66.years",
                 "Median.Income.", "POVERTY" >>

\* reference polygons: NAME and geometry, the i-th row holding polygon i;
\* the tracts of one county have distinct names
RefTables ==
    { Table({"NAME", "geometry"},
            [i \in 1..Len(names) |-> [c \in {"NAME", "geometry"} |->
                                        IF c = "NAME" THEN names[i] ELSE i]])
      : names \in UNION { {f \in [1..n -> RefNames] :
                              \A i, j \in 1..n : f[i] = f[j] => i = j}
                          : n \in 1..MaxRef } }

\* the attribute tables that can stand at position i of the list: with NAME
\* (its j-th row carrying the value j) or without it
AttrTables(i) ==
    { Table({"NAME", AttrColumn[i]},
            [j \in 1..Len(names) |-> [c \in {"NAME", AttrColumn[i]} |->
                                        IF c = "NAME" THEN names[j] ELSE Float(j, 1)]])
      : names \in UNION {[1..n -> AttrNames] : n \in 0..MaxAttrRows} }
    \cup { Table({AttrColumn[i]}, <<[c \in {AttrColumn[i]} |-> Float(1, 1)]>>) }

RECURSIVE AttrListsOfLen(_)
AttrListsOfLen(n) ==
    IF n = 0 THEN {<<>>}
    ELSE {Append(ds, d) : ds \in AttrListsOfLen(n - 1), d \in AttrTables(n)}

AttrLists == UNION {AttrListsOfLen(n) : n \in 1..MaxTables}

IdleMerge == /\ c_county = Table({}, <<>>) /\ dfs = <<>>
             /\ Counties = Unset /\ pcMerge = "idle"

InitMerge == /\ c_county \in RefTables
             /\ dfs \in AttrLists
             /\ Counties = Unset
             /\ pcMerge = "read"

\* lines 69 and 112-114: NAME of the shapefile and of every table with NAME
NormalizeTables ==
    /\ pcMerge = "read"
    /\ c_county' = normalize_table(c_county)
    /\ dfs' = [i \in 1..Len(dfs) |-> normalize_table(dfs[i])]
    /\ pcMerge' = "normalized"
    /\ UNCHANGED <<Counties, notMerge>>

\* Counties_1 = merge_chain(c_elkhart, df_1, df1, DF1, DataF1, DF_1)  (line 130)
\* a ValueError ends the script: Counties_1 is never bound
MergeCounty ==
    /\ pcMerge = "normalized"
    /\ LET out == merge_chain(c_county, dfs)
       IN  IF out.kind = "raise"
           THEN pcMerge' = "ValueError" /\ UNCHANGED Counties
           ELSE pcMerge' = "merged" /\ Counties' = out
    /\ UNCHANGED <<c_county, dfs, notMerge>>

\* add_age_metrics(g)  (line 188)
AddAgeMetrics ==
    /\ pcMerge = "merged"
    /\ Counties' = add_age_metrics(Counties)
    /\ pcMerge' = "derived"
    /\ UNCHANGED <<c_county, dfs, notMerge>>

\* merged tables for the derived metrics alone: any subset of these columns,
\* any of these cells
MetricColumns == {"Total", "Male..5.to.9.years", "Female..5.to.9.years",
                  "Male..65.and.66.years"}
MetricCells   == {NaN, Float(0, 1), Float(2, 1)}
MetricTable(n, cols, cells) ==
    Table(cols \cup {"NAME", "geometry"},
          [i \in 1..n |-> [c \in cols \cup {"NAME", "geometry"} |->
              IF c = "NAME" THEN <<"1">>
              ELSE IF c = "geometry" THEN i ELSE cells[i][c]]])

InitMetrics ==
    /\ c_county = Table({}, <<>>) /\ dfs = <<>>
    /\ \E n \in 1..MaxMetricRows, cols \in SUBSET MetricColumns :
          \E cells \in [1..n -> [cols -> MetricCells]] :
              Counties = MetricTable(n, cols, cells)
    /\ pcMerge = "merged"

(***************************************************************************)
(* The county filter (PythonCode3.py:70-73, PythonCode2.py:41-44,          *)
(* PythonCode.py:31-33)                                                    *)
(***************************************************************************)
IntCell(v) == [kind |-> "int", v |-> v]

\* str(v) of a non-negative integer: its decimal digits, no padding
RECURSIVE int_to_str(_)
int_to_str(v) ==
    IF v < 10 THEN <<DigitChars[v + 1]>>
    ELSE int_to_str(v \div 10) \o <<DigitChars[(v % 10) + 1]>>

\* Series.astype(str) on one cell
astype_str(cell) == IF cell.kind = "int" THEN Str(int_to_str(cell.v)) ELSE cell

\* county_fips = ["099", "141", "039"]  /  keep_fips = {"039", "141", "099"}
county_fips == { <<"0","9","9">>, <<"1","4","1">>, <<"0","3","9">> }

\* tracts[tracts["COUNTYFP"].isin(county_fips)]: the rows kept, in order
RECURSIVE isin_rows(_, _, _)
isin_rows(col, values, i) ==
    IF i > Len(col) THEN <<>>
    ELSE (IF col[i].kind = "str" /\ col[i].s \in values THEN <<i>> ELSE <<>>)
         \o isin_rows(col, values, i + 1)

\* county codes as a tract file can carry them: text or number
CountyCells == { Str(<<"0","3","9">>), Str(<<"3","9">>), Str(<<"1","4","1">>),
                 Str(<<"0","9","9">>), Str(<<"0","0","1">>),
                 IntCell(39), IntCell(141), IntCell(99), IntCell(1) }

IdleCounty == /\ rawCOUNTYFP = <<>> /\ COUNTYFP = <<>>
              /\ filtered = <<>> /\ pcCounty = "idle"

InitCounty == /\ rawCOUNTYFP \in UNION {[1..n -> CountyCells] : n \in 1..MaxTracts}
              /\ COUNTYFP = rawCOUNTYFP
              /\ filtered = <<>>
              /\ pcCounty = "read"

\* tracts["COUNTYFP"] = tracts["COUNTYFP"].astype(str)                (line 70)
ConvertCOUNTYFP ==
    /\ pcCounty = "read"
    /\ COUNTYFP' = [i \in 1..Len(COUNTYFP) |-> astype_str(COUNTYFP[i])]
    /\ pcCounty' = "converted"
    /\ UNCHANGED <<rawCOUNTYFP, filtered, notCounty>>

\* filtered = tracts[tracts["COUNTYFP"].isin(county_fips)].copy()     (line 73)
FilterCounties ==
    /\ pcCounty = "converted"
    /\ filtered' = isin_rows(COUNTYFP, county_fips, 1)
    /\ pcCounty' = "filtered"
    /\ UNCHANGED <<rawCOUNTYFP, COUNTYFP, notCounty>>

(***************************************************************************)
(* Coordinate reference systems and layers                                 *)
(***************************************************************************)
EPSG(code) == [kind |-> "crs", epsg |-> code]
EPSG4269  == EPSG(4269)   \* NAD83, degrees
EPSG4326  == EPSG(4326)   \* WGS84, degrees
EPSG26916 == EPSG(26916)  \* UTM zone 16N, metres
\* 1609.34 m, in centimetres
MileInCentimetres == 160934

IsProjected(crs) == crs = EPSG26916
IsGeographic(crs) == crs \in {EPSG4269, EPSG4326}

\* a layer: its declared CRS (None when it declares none) and its geometries
Layer(crs, geoms) == [kind |-> "layer", crs |-> crs, geoms |-> geoms]

\* GeoDataFrame.set_crs(crs): declares the CRS, coordinates untouched
set_crs(layer, crs) == Layer(crs, layer.geoms)

\* GeoDataFrame.to_crs(crs): a layer without CRS cannot be transformed
to_crs(layer, crs) ==
    IF layer.crs = None THEN Raised("ValueError") ELSE Layer(crs, layer.geoms)

\* GeoSeries.buffer(distance): a disk of that radius around each point, the
\* distance being in the units of the CRS the layer is in at that moment
buffer(layer, distance) ==
    Layer(layer.crs,
          [i \in 1..Len(layer.geoms) |->
              [kind |-> "disk", of |-> layer.geoms[i].of,
               radius |-> distance, drawn_in |-> layer.crs]])

(***************************************************************************)
(* Pantries: geocoding, points, buffers, markers (PythonCode3.py:219-245,  *)
(* 362-381)                                                                *)
(***************************************************************************)
\* the place of an address, as the provider knows it
Location(addr) ==
    [kind |-> "location", latitude |-> Float(40 + addr, 1),
     longitude |-> Float(0 - (85 + addr), 1)]

GeocodeOutcomes == {"found", "empty", "failed"}

\* geocode = RateLimiter(geolocator.geocode, min_delay_seconds=0.2): the
\* location, None for an empty result, and None as well for a provider error
\* (the limiter swallows it)
geocode(addr, answer) ==
    CASE answer = "found"  -> Location(addr)
      [] answer = "empty"  -> None
      [] answer = "failed" -> None

\* a slip that appends nothing for a lookup without result
append_found_only(list, loc, coord) ==
    IF loc # None THEN Append(list, loc[coord]) ELSE list

\* lat.append(loc.latitude) / lat.append(np.nan)                (lines 228-233)
append_coord(list, loc, coord) ==
    IF loc # None THEN Append(list, loc[coord]) ELSE Append(list, NaN)

\* pantries.dropna(subset=["lat", "long"])
dropna_coords(rows) ==
    SelectSeq(rows, LAMBDA r : IsFloat(r["lat"]) /\ IsFloat(r["long"]))

\* gpd.points_from_xy(pantries["long"], pantries["lat"]), crs=4326
points_from_xy(rows) ==
    Layer(EPSG4326, [i \in 1..Len(rows) |->
                        [kind |-> "point", of |-> rows[i]["Address"],
                         x |-> rows[i]["long"], y |-> rows[i]["lat"]]])

\* a slip that buffers the points where they are, in degrees
coverage_buffer_in_place(gdf) == buffer(gdf, MileInCentimetres)

\* pantries_gdf.to_crs(26916).buffer(1609.34)                       (line 243)
coverage_buffer(gdf) == buffer(to_crs(gdf, EPSG26916), MileInCentimetres)

\* the pantry CSV: Address on every row, lat and long columns or not
PantryRow(addr, la, lo) == [Address |-> addr, lat |-> la, long |-> lo]
PantryFrame(cols, rows) == [kind |-> "table", columns |-> cols, rows |-> rows]

IdlePantry ==
    /\ pantryFile = PantryFrame({}, <<>>) /\ pantries = PantryFrame({}, <<>>)
    /\ lat = <<>> /\ lon = <<>> /\ calls = <<>>
    /\ pantries_gdf = Unset /\ pantries_buf = Unset /\ markers = <<>>
    /\ pcPantry = "idle"

\* pantries = pd.read_csv(...)                                      (line 219)
InitPantry ==
    /\ \E n \in 1..MaxPantries :
          \/ \E known \in [1..n -> SUBSET {"lat", "long"}] :
                pantryFile = PantryFrame({"Address", "lat", "long"},
                    [i \in 1..n |-> PantryRow(i,
                        IF "lat" \in known[i] THEN Location(i).latitude ELSE NaN,
                        IF "long" \in known[i] THEN Location(i).longitude ELSE NaN)])
          \/ \E cols \in {{"Address"}, {"Address", "lat"}} :
                pantryFile = PantryFrame(cols,
                    [i \in 1..n |-> PantryRow(i, IF "lat" \in cols THEN NaN ELSE Unset,
                                              Unset)])
    /\ pantries = pantryFile
    /\ lat = <<>> /\ lon = <<>> /\ calls = <<>>
    /\ pantries_gdf = Unset /\ pantries_buf = Unset /\ markers = <<>>
    /\ pcPantry = "read"

NeedsGeocoding == "lat" \notin pantries.columns \/ "long" \notin pantries.columns

\* one pass of the loop of lines 226-233: the next address is looked up
GeocodeNext ==
    /\ pcPantry = "read"
    /\ NeedsGeocoding
    /\ Len(calls) < Len(pantries.rows)
    /\ \E answer \in GeocodeOutcomes :
          LET addr == pantries.rows[Len(calls) + 1]["Address"]
              loc  == geocode(addr, answer)
          IN  /\ calls' = Append(calls, <<addr, answer>>)
              /\ IF loc.kind = "raise"
                 THEN pcPantry' = "GeocoderServiceError" /\ UNCHANGED <<lat, lon>>
                 ELSE /\ lat' = append_coord(lat, loc, "latitude")
                      /\ lon' = append_coord(lon, loc, "longitude")
                      /\ UNCHANGED pcPantry
    /\ UNCHANGED <<pantryFile, pantries, pantries_gdf, pantries_buf, markers, notPantry>>

\* pantries["lat"] = lat; pantries["long"] = lon                (lines 234-235)
\* (a list of another length than the frame is a ValueError)
AssignCoords ==
    /\ pcPantry = "read"
    /\ NeedsGeocoding
    /\ Len(calls) = Len(pantries.rows)
    /\ IF Len(lat) = Len(pantries.rows) /\ Len(lon) = Len(pantries.rows)
       THEN /\ pantries' = PantryFrame(pantries.columns \cup {"lat", "long"},
                  [i \in 1..Len(pantries.rows) |->
                      PantryRow(pantries.rows[i]["Address"], lat[i], lon[i])])
            /\ pcPantry' = "located"
       ELSE pcPantry' = "ValueError" /\ UNCHANGED pantries
    /\ UNCHANGED <<pantryFile, lat, lon, calls, pantries_gdf, pantries_buf, markers,
                   notPantry>>

\* the columns are in the file: no geocoding                        (line 222)
SkipGeocoding ==
    /\ pcPantry = "read"
    /\ ~NeedsGeocoding
    /\ pcPantry' = "located"
    /\ UNCHANGED <<pantryFile, pantries, lat, lon, calls, pantries_gdf, pantries_buf,
                   markers, notPantry>>

\* pantries = pantries.dropna(...); pantries_gdf = GeoDataFrame(...) (237-240)
MakePoints ==
    /\ pcPantry = "located"
    /\ pantries' = PantryFrame(pantries.columns, dropna_coords(pantries.rows))
    /\ pantries_gdf' = points_from_xy(dropna_coords(pantries.rows))
    /\ pcPantry' = "points"
    /\ UNCHANGED <<pantryFile, lat, lon, calls, pantries_buf, markers, notPantry>>

\* pantries_buf = pantries_gdf.to_crs(26916).buffer(1609.34)        (line 243)
BufferPantries ==
    /\ pcPantry = "points"
    /\ pantries_buf' = coverage_buffer(pantries_gdf)
    /\ pcPantry' = "buffered"
    /\ UNCHANGED <<pantryFile, pantries, lat, lon, calls, pantries_gdf, markers,
                   notPantry>>

\* pantries_buf = gpd.GeoSeries(pantries_buf, crs=26916).to_crs(4326) (244-245)
ReprojectBuffers ==
    /\ pcPantry = "buffered"
    /\ pantries_buf' = to_crs(set_crs(pantries_buf, EPSG26916), EPSG4326)
    /\ pcPantry' = "coverage"
    /\ UNCHANGED <<pantryFile, pantries, lat, lon, calls, pantries_gdf, markers,
                   notPantry>>

\* the marker loop of lines 364-380: rows without lat or long are skipped
AddMarkers ==
    /\ pcPantry = "coverage"
    /\ markers' = LET rows == dropna_coords(pantries.rows)
                  IN  [i \in 1..Len(rows) |->
                          [of |-> rows[i]["Address"], at |-> <<rows[i]["lat"],
                                                               rows[i]["long"]>>]]
    /\ pcPantry' = "done"
    /\ UNCHANGED <<pantryFile, pantries, lat, lon, calls, pantries_gdf, pantries_buf,
                   notPantry>>

(***************************************************************************)
(* Layers of the three map scripts: source files, reference systems,       *)
(* optional layers, output (PythonCode.py, PythonCode2.py, PythonCode3.py) *)
(***************************************************************************)
Absent == [kind |-> "absent"]
Saved  == [kind |-> "saved"]
Shape(path) == [kind |-> "shape", of |-> path]
VectorFile(path, crs) == Layer(crs, <<Shape(path)>>)

TractShp         == "tl_2021_18_tract.shp"
MergedGeojson    == "merged_df.geojson"
TargetCounties   == "target_counties.geojson"
RoutesShp        == "TranspoRoutes.shp"
PantriesSf       == "pantries_sf.geojson"
PantriesCsv      == "pantries.csv"
CountyBoundaries == "County_Boundaries_of_Indiana_Current.shp"
PantryLocations  == "UPDATE5_Final_Cleaned_Pantry_Locations.csv - Sheet1.csv"
Paths == {TractShp, MergedGeojson, TargetCounties, RoutesShp, PantriesSf, PantriesCsv,
          CountyBoundaries, PantryLocations}

Scripts == {"PythonCode", "PythonCode2", "PythonCode3"}
LayerNames == {"tracts", "counties", "routes", "coverage", "markers"}
NoLayers == [l \in LayerNames |-> Unset]

\* a vector file on disk: with or without a declared reference system
DeclaredOrNot(path) == {VectorFile(path, None), VectorFile(path, EPSG4269)}
\* a pantry table on disk, with coordinates
PantryTable ==
    PantryFrame({"Address", "lat", "long"},
                <<PantryRow(1, Location(1).latitude, Location(1).longitude)>>)

\* Path.exists()
exists(path) == files[path] # Absent
\* gpd.read_file(path)
read_file(path) == IF exists(path) THEN files[path] ELSE Raised("DataSourceError")
\* pd.read_csv(path)
read_csv(path) == IF exists(path) THEN files[path] ELSE Raised("FileNotFoundError")

\* if gdf.crs is None: gdf = gdf.set_crs(default)
set_crs_if_none(gdf, default) == IF gdf.crs = None THEN set_crs(gdf, default) ELSE gdf
\* the assumption that statement makes, if it makes one
Assumption(layer, gdf, default) ==
    IF gdf.crs = None
    THEN {[script |-> script, layer |-> layer, crs |-> default]}
    ELSE {}

\* tmp.dissolve(by="name"): county outlines out of the tracts, in their CRS
dissolve(gdf) == Layer(gdf.crs, <<Shape("dissolved")>>)

\* the markers of the rows with coordinates, as folium places them
marker_points(rows) == points_from_xy(dropna_coords(rows))

IdleLayers ==
    /\ files = [p \in Paths |-> Absent]
    /\ script = "none" /\ ran = {} /\ pcLayers = "off"
    /\ layers = NoLayers /\ warned = {} /\ assumed = {} /\ outcome = Unset

InitLayers ==
    /\ \E tr \in DeclaredOrNot(TractShp),
          mg \in {Absent} \cup DeclaredOrNot(MergedGeojson),
          tc \in {Absent} \cup DeclaredOrNot(TargetCounties),
          ro \in {Absent} \cup DeclaredOrNot(RoutesShp),
          sf \in {Absent} \cup DeclaredOrNot(PantriesSf),
          pc \in {Absent, PantryTable},
          cb \in {Absent} \cup DeclaredOrNot(CountyBoundaries),
          pl \in {Absent, PantryTable} :
          files = (TractShp :> tr) @@ (MergedGeojson :> mg) @@ (TargetCounties :> tc)
                  @@ (RoutesShp :> ro) @@ (PantriesSf :> sf) @@ (PantriesCsv :> pc)
                  @@ (CountyBoundaries :> cb) @@ (PantryLocations :> pl)
    /\ script = "none" /\ ran = {} /\ pcLayers = "idle"
    /\ layers = NoLayers /\ warned = {} /\ assumed = {} /\ outcome = Unset

\* one of the scripts is started, on the files as they are
StartScript ==
    /\ pcLayers \in {"idle", "done", "failed"}
    /\ \E s \in Scripts \ ran :
          /\ script' = s
          /\ ran' = ran \cup {s}
    /\ pcLayers' = "tracts"
    /\ layers' = NoLayers /\ warned' = {} /\ outcome' = Unset
    /\ UNCHANGED <<files, assumed, notLayers>>

\* an uncaught exception ends the run; nothing is written
Fail(e) ==
    /\ pcLayers' = "failed"
    /\ outcome' = e
    /\ UNCHANGED <<layers, warned, assumed>>

\* the layer is prepared and the script moves on
Hand(layer, gdf, next) ==
    /\ layers' = [layers EXCEPT ![layer] = gdf]
    /\ pcLayers' = next
    /\ UNCHANGED <<warned, outcome>>

\* PythonCode.py:22-29
P1Tracts ==
    /\ script = "PythonCode" /\ pcLayers = "tracts"
    /\ LET gdf == read_file(TractShp)
       IN  IF gdf.kind = "raise" THEN Fail(gdf)
           ELSE /\ Hand("tracts", to_crs(set_crs_if_none(gdf, EPSG4269), EPSG4326), "save")
                /\ assumed' = assumed \cup Assumption("tracts", gdf, EPSG4269)
    /\ UNCHANGED <<files, script, ran, notLayers>>

\* PythonCode.py:52-54
P1Save ==
    /\ script = "PythonCode" /\ pcLayers = "save"
    /\ pcLayers' = "done" /\ outcome' = Saved
    /\ UNCHANGED <<files, script, ran, layers, warned, assumed, notLayers>>

\* PythonCode2.py:25-39
P2Tracts ==
    /\ script = "PythonCode2" /\ pcLayers = "tracts"
    /\ LET gdf == IF exists(MergedGeojson) THEN read_file(MergedGeojson)
                  ELSE read_file(TractShp)
       IN  IF gdf.kind = "raise" THEN Fail(gdf)
           ELSE /\ Hand("tracts", to_crs(set_crs_if_none(gdf, EPSG4326), EPSG4326),
                        "counties")
                /\ assumed' = assumed \cup Assumption("tracts", gdf, EPSG4326)
    /\ UNCHANGED <<files, script, ran, notLayers>>

\* PythonCode2.py:136-157
P2Counties ==
    /\ script = "PythonCode2" /\ pcLayers = "counties"
    /\ IF exists(TargetCounties)
       THEN LET target_counties == read_file(TargetCounties)
            IN  /\ Hand("counties",
                        to_crs(set_crs_if_none(target_counties, EPSG4326), EPSG4326),
                        "routes")
                /\ assumed' = assumed \cup Assumption("counties", target_counties, EPSG4326)
       ELSE /\ Hand("counties", dissolve(layers["tracts"]), "routes")
            /\ UNCHANGED assumed
    /\ UNCHANGED <<files, script, ran, notLayers>>

\* PythonCode2.py:162-213
P2Routes ==
    /\ script = "PythonCode2" /\ pcLayers = "routes"
    /\ IF exists(RoutesShp)
       THEN LET routes == read_file(RoutesShp)
            IN  /\ Hand("routes",
                        IF routes.crs = None THEN set_crs(routes, EPSG4326)
                        ELSE to_crs(routes, EPSG4326),
                        "coverage")
                /\ assumed' = assumed \cup Assumption("routes", routes, EPSG4326)
       ELSE /\ warned' = warned
                  \cup {"TranspoRoutes.shp not found; skipping Bus Routes layer."}
            /\ pcLayers' = "coverage"
            /\ UNCHANGED <<layers, outcome, assumed>>
    /\ UNCHANGED <<files, script, ran, notLayers>>

\* PythonCode2.py:218-228
P2Coverage ==
    /\ script = "PythonCode2" /\ pcLayers = "coverage"
    /\ IF exists(PantriesSf)
       THEN LET pantries_sf == read_file(PantriesSf)
            IN  /\ Hand("coverage",
                        to_crs(set_crs_if_none(pantries_sf, EPSG4326), EPSG4326),
                        "markers")
                /\ assumed' = assumed \cup Assumption("coverage", pantries_sf, EPSG4326)
       ELSE /\ pcLayers' = "markers"
            /\ UNCHANGED <<layers, warned, outcome, assumed>>
    /\ UNCHANGED <<files, script, ran, notLayers>>

\* PythonCode2.py:233-254
P2Markers ==
    /\ script = "PythonCode2" /\ pcLayers = "markers"
    /\ IF exists(PantriesCsv)
       THEN Hand("markers", marker_points(read_csv(PantriesCsv).rows), "save")
       ELSE /\ pcLayers' = "save"
            /\ UNCHANGED <<layers, warned, outcome>>
    /\ UNCHANGED <<files, script, ran, assumed, notLayers>>

\* PythonCode2.py:259-265
P2Save ==
    /\ script = "PythonCode2" /\ pcLayers = "save"
    /\ pcLayers' = "done" /\ outcome' = Saved
    /\ UNCHANGED <<files, script, ran, layers, warned, assumed, notLayers>>

\* PythonCode3.py:62-66
P3Tracts ==
    /\ script = "PythonCode3" /\ pcLayers = "tracts"
    /\ LET tracts == read_file(TractShp)
       IN  IF tracts.kind = "raise" THEN Fail(tracts)
           ELSE /\ Hand("tracts", to_crs(set_crs_if_none(tracts, EPSG4269), EPSG4326),
                        "pantries")
                /\ assumed' = assumed \cup Assumption("tracts", tracts, EPSG4269)
    /\ UNCHANGED <<files, script, ran, notLayers>>

\* PythonCode3.py:219-245 (the buffers) and 362-381 (the markers)
P3Pantries ==
    /\ script = "PythonCode3" /\ pcLayers = "pantries"
    /\ LET table == read_csv(PantryLocations)
       IN  IF table.kind = "raise" THEN Fail(table)
           ELSE /\ layers' = [layers EXCEPT
                      !["coverage"] =
                          to_crs(set_crs(coverage_buffer(marker_points(table.rows)),
                                         EPSG26916), EPSG4326),
                      !["markers"] = marker_points(table.rows)]
                /\ pcLayers' = "routes"
                /\ UNCHANGED <<warned, outcome, assumed>>
    /\ UNCHANGED <<files, script, ran, notLayers>>

\* PythonCode3.py:251
P3Routes ==
    /\ script = "PythonCode3" /\ pcLayers = "routes"
    /\ LET file   == read_file(RoutesShp)
           routes == IF file.kind = "raise" THEN file ELSE to_crs(file, EPSG4326)
       IN  IF routes.kind = "raise" THEN Fail(routes)
           ELSE Hand("routes", routes, "counties") /\ UNCHANGED assumed
    /\ UNCHANGED <<files, script, ran, notLayers>>

\* PythonCode3.py:281-282
P3Counties ==
    /\ script = "PythonCode3" /\ pcLayers = "counties"
    /\ LET file     == read_file(CountyBoundaries)
           counties == IF file.kind = "raise" THEN file ELSE to_crs(file, EPSG4326)
       IN  IF counties.kind = "raise" THEN Fail(counties)
           ELSE Hand("counties", counties, "save") /\ UNCHANGED assumed
    /\ UNCHANGED <<files, script, ran, notLayers>>

\* PythonCode3.py:383-388
P3Save ==
    /\ script = "PythonCode3" /\ pcLayers = "save"
    /\ pcLayers' = "done" /\ outcome' = Saved
    /\ UNCHANGED <<files, script, ran, layers, warned, assumed, notLayers>>

(***************************************************************************)
(* fetch_acs (pythonScrape1.py:7-38)                                       *)
(***************************************************************************)
YEAR  == "2023"
STATE_CODE == "18"
COUNTIES == <<"039", "099", "141">>

age_vars ==
    <<"B01001_001E",
      "B01001_003E", "B01001_004E", "B01001_005E", "B01001_006E",
      "B01001_027E", "B01001_028E", "B01001_029E", "B01001_030E",
      "B01001_020E", "B01001_021E", "B01001_022E", "B01001_023E", "B01001_024E",
      "B01001_025E",
      "B01001_044E", "B01001_045E", "B01001_046E", "B01001_047E", "B01001_048E",
      "B01001_049E">>

\* the three calls of the script: the variables asked for and the dataset
AcsCalls ==
    { [vars |-> <<"B19013_001E">>, dataset |-> "acs/acs5"],
      [vars |-> <<"S1701_C03_001E">>, dataset |-> "acs/acs5/subject"],
      [vars |-> age_vars, dataset |-> "acs/acs5"] }

\* the request fetch_acs sends for county c
Request(call, c) ==
    [url    |-> <<"https://api.census.gov/data", YEAR, call.dataset>>,
     get    |-> <<"NAME">> \o call.vars,
     for    |-> "tract:*",
     in     |-> <<"state", STATE_CODE, "county", c>>]

\* the body of an answer: the header row, then one row of strings per tract
AcsHeader(req) == req.get \o <<"state", "county", "tract">>
AcsRow(req, k) ==
    [j \in 1..Len(AcsHeader(req)) |->
        CASE AcsHeader(req)[j] = "NAME"   -> <<"Census Tract", k, req.in[4]>>
          [] AcsHeader(req)[j] = "state"  -> req.in[2]
          [] AcsHeader(req)[j] = "county" -> req.in[4]
          [] AcsHeader(req)[j] = "tract"  -> <<"tract", k>>
          [] OTHER                        -> <<AcsHeader(req)[j], k>>]
AcsBody(req, n) == <<AcsHeader(req)>> \o [k \in 1..n |-> AcsRow(req, k)]

\* what the service may answer to a request
Responses(req) ==
    { [status |-> 200, content |-> "json", body |-> AcsBody(req, n)] :
          n \in 0..MaxAcsRows }
    \cup { [status |-> 204, content |-> "empty", body |-> <<>>],
           [status |-> 404, content |-> "text", body |-> <<>>],
           [status |-> 500, content |-> "text", body |-> <<>>] }

\* Response.raise_for_status(): HTTPError for a 4xx or 5xx status
raise_for_status(r) ==
    IF r.status >= 400 /\ r.status < 600 THEN Raised("HTTPError") ELSE None

\* pd.DataFrame(rows, columns=cols)
DataFrame(rows, cols) == [kind |-> "frame", columns |-> cols, rows |-> rows]

RECURSIVE concat_rows(_)
concat_rows(fs) == IF fs = <<>> THEN <<>> ELSE Head(fs).rows \o concat_rows(Tail(fs))

\* pd.concat(frames, ignore_index=True), the frames having the same columns
concat(fs) ==
    IF fs = <<>> THEN Raised("ValueError") ELSE DataFrame(concat_rows(fs), fs[1].columns)

\* the list frames, as the loop body leaves it when nothing is raised
Frames(fs) == [kind |-> "frames", list |-> fs]

\* a slip that leaves out a county whose request did not succeed
loop_body_lenient(fs, r) ==
    IF raise_for_status(r) # None \/ r.content # "json" \/ r.body = <<>>
    THEN Frames(fs)
    ELSE Frames(Append(fs, DataFrame(Tail(r.body), Head(r.body))))

\* one pass of the loop, after the request: lines 20-23
loop_body(fs, r) ==
    IF raise_for_status(r) # None THEN raise_for_status(r)
    ELSE IF r.content # "json" THEN Raised("JSONDecodeError")
    ELSE IF r.body = <<>> THEN Raised("ValueError")
    ELSE Frames(Append(fs, DataFrame(Tail(r.body), Head(r.body))))

IsRaised(x) == x.kind = "raise"

IdleAcs ==
    /\ acsCall = Unset /\ frames = <<>> /\ requests = <<>> /\ acsResult = Unset
    /\ pcAcs = "idle"

\* frames = []
InitAcs ==
    /\ acsCall \in AcsCalls
    /\ frames = <<>> /\ requests = <<>> /\ acsResult = Unset
    /\ pcAcs = "loop"

\* for c in COUNTIES: one request, its answer, the frame appended
FetchCounty ==
    /\ pcAcs = "loop"
    /\ Len(requests) < Len(COUNTIES)
    /\ LET c   == COUNTIES[Len(requests) + 1]
           req == Request(acsCall, c)
       IN  \E r \in Responses(req) :
              /\ requests' = Append(requests, [county |-> c, req |-> req, r |-> r])
              /\ LET next == loop_body(frames, r)
                 IN  IF IsRaised(next)
                     THEN /\ acsResult' = next
                          /\ pcAcs' = "raised"
                          /\ UNCHANGED frames
                     ELSE /\ frames' = next.list
                          /\ UNCHANGED <<acsResult, pcAcs>>
    /\ UNCHANGED <<acsCall, notAcs>>

\* return pd.concat(frames, ignore_index=True)
ReturnConcat ==
    /\ pcAcs = "loop"
    /\ Len(requests) = Len(COUNTIES)
    /\ acsResult' = concat(frames)
    /\ pcAcs' = IF IsRaised(concat(frames)) THEN "raised" ELSE "returned"
    /\ UNCHANGED <<acsCall, frames, requests, notAcs>>

(***************************************************************************)
(* Specifications                                                          *)
(***************************************************************************)
NextNorm == NormalizeNAME
InitSpecNorm == InitNorm /\ IdlePov /\ IdleMerge /\ IdleCounty /\ IdlePantry /\ IdleLayers /\ IdleAcs
SpecNorm == InitSpecNorm /\ [][NextNorm]_vars

NextPoverty == ParsePoverty \/ ScalePoverty \/ PercentToFloat
InitSpecPoverty == IdleNorm /\ InitPov /\ IdleMerge /\ IdleCounty /\ IdlePantry /\ IdleLayers /\ IdleAcs
SpecPoverty == InitSpecPoverty /\ [][NextPoverty]_vars

NextMerge == NormalizeTables \/ MergeCounty \/ AddAgeMetrics
InitSpecMerge == IdleNorm /\ IdlePov /\ InitMerge /\ IdleCounty /\ IdlePantry /\ IdleLayers /\ IdleAcs
SpecMerge == InitSpecMerge /\ [][NextMerge]_vars

NextMetrics == AddAgeMetrics
InitSpecMetrics == IdleNorm /\ IdlePov /\ InitMetrics /\ IdleCounty /\ IdlePantry /\ IdleLayers /\ IdleAcs
SpecMetrics == InitSpecMetrics /\ [][NextMetrics]_vars

NextCounty == ConvertCOUNTYFP \/ FilterCounties
InitSpecCounty == IdleNorm /\ IdlePov /\ IdleMerge /\ InitCounty /\ IdlePantry /\ IdleLayers /\ IdleAcs
SpecCounty == InitSpecCounty /\ [][NextCounty]_vars

NextPantry == \/ GeocodeNext \/ AssignCoords \/ SkipGeocoding \/ MakePoints
              \/ BufferPantries \/ ReprojectBuffers \/ AddMarkers
InitSpecPantry == IdleNorm /\ IdlePov /\ IdleMerge /\ IdleCounty /\ InitPantry /\ IdleLayers /\ IdleAcs
SpecPantry == InitSpecPantry /\ [][NextPantry]_vars

NextLayers == \/ StartScript \/ P1Tracts \/ P1Save
              \/ P2Tracts \/ P2Counties \/ P2Routes \/ P2Coverage \/ P2Markers \/ P2Save
              \/ P3Tracts \/ P3Pantries \/ P3Routes \/ P3Counties \/ P3Save
InitSpecLayers ==
    IdleNorm /\ IdlePov /\ IdleMerge /\ IdleCounty /\ IdlePantry /\ InitLayers /\ IdleAcs
SpecLayers == InitSpecLayers /\ [][NextLayers]_vars

NextAcs == FetchCounty \/ ReturnConcat
InitSpecAcs ==
    IdleNorm /\ IdlePov /\ IdleMerge /\ IdleCounty /\ IdlePantry /\ IdleLayers /\ InitAcs
SpecAcs == InitSpecAcs /\ [][NextAcs]_vars

(***************************************************************************)
(* Claims about norm_tract_name                                            *)
(***************************************************************************)
\* the input without its surrounding whitespace, read off the positions
TrimmedOf(x) ==
    LET solid == {i \in 1..Len(x) : x[i] \notin Whitespace}
    IN  IF solid = {} THEN <<>>
        ELSE SubSeq(x, CHOOSE i \in solid : \A j \in solid : i <= j,
                       CHOOSE i \in solid : \A j \in solid : j <= i)

\* digits, optionally one '.' followed by more digits
PureDecimal(t) ==
    /\ t # <<>>
    /\ \A i \in 1..Len(t) : t[i] \in Digits \cup {"."}
    /\ Cardinality({i \in 1..Len(t) : t[i] = "."}) <= 1
    /\ t[1] \in Digits /\ t[Len(t)] \in Digits

\* the number without the trailing zeros of its fractional part, and without
\* the point when no fractional digit remains
WithoutTrailingZeros(t) ==
    IF "." \notin Range(t) THEN t
    ELSE LET p    == CHOOSE i \in 1..Len(t) : t[i] = "."
             keep == {i \in (p + 1)..Len(t) : t[i] # "0"}
             last == IF keep = {} THEN p - 1
                     ELSE CHOOSE i \in keep : \A j \in keep : j <= i
         IN  SubSeq(t, 1, last)

ExpectedName(x) ==
    LET t == TrimmedOf(x)
    IN  IF PureDecimal(t) THEN WithoutTrailingZeros(t) ELSE t

\* C1: after one normalization the NAME is the trimmed input, and when that is
\* a pure decimal number it has lost exactly the trailing zeros of its
\* fractional part (and the point when nothing follows it): "113.10" gives
\* "113.1", "101.02" and "100" are unchanged; any other string is only trimmed.
C1_NormTractName ==
    normCalls = 1 =>
        /\ NAME = ExpectedName(rawNAME)
        /\ rawNAME = <<"1","1","3",".","1","0">> => NAME = <<"1","1","3",".","1">>
        /\ rawNAME = <<"1","0","1",".","0","2">> => NAME = rawNAME
        /\ rawNAME = <<"1","0","0">> => NAME = rawNAME

C1_Witness ==
    /\ normCalls = 1
    /\ rawNAME = <<"1","1","3",".","1","0">>
    /\ NAME = <<"1","1","3",".","1">>

\* C2: norm_tract_name is idempotent: once the NAME column has been
\* normalized, normalizing it again leaves every NAME as it is.
C2_NormIdempotent == [][normCalls >= 1 => NAME' = NAME]_vars

C2_Witness ==
    /\ normCalls = 2
    /\ rawNAME = <<" ","1","0","0",".","0","0"," ">>
    /\ NAME = <<"1","0","0">>

(***************************************************************************)
(* Claims about parse_number and the poverty scale                         *)
(***************************************************************************)
\* what is left of a text when only digits, points and a leading minus sign
\* are kept: a minus sign after the first kept character is dropped
LeadingMinusResidue(s) ==
    LET r == SelectSeq(s, LAMBDA c : c \in Digits \cup {".", "-"})
    IN  IF r = <<>> THEN <<>>
        ELSE <<r[1]>> \o SelectSeq(Tail(r), LAMBDA c : c # "-")

NumberOrNone(r) == IF float(r).kind = "raise" THEN None ELSE float(r)

\* C3: for a non-null text the value parsed is that of the text with every
\* character stripped that is not a digit, a point or a leading minus sign
\* (a minus sign that is not leading is stripped too).
C3_ParseStripsAllButLeadingMinus ==
    (pcPov \in {"parsed", "scaled"} /\ POVERTY # None) =>
        PovertyNum = NumberOrNone(LeadingMinusResidue(POVERTY.s))

\* what is left of a text when digits, points and all minus signs are kept
MinusKeepingResidue(s) == SelectSeq(s, LAMBDA c : c \in Digits \cup {".", "-"})

\* C3 (amended): for a non-null text the value parsed is that of the text
\* with every character stripped that is not a digit, a point or a minus
\* sign; a minus sign is kept wherever it stands, so a text with a minus sign
\* after its first kept character has no value.
C3_ParseKeepsEveryMinus ==
    (pcPov \in {"parsed", "scaled"} /\ POVERTY # None) =>
        /\ PovertyNum = NumberOrNone(MinusKeepingResidue(POVERTY.s))
        /\ (\E i \in 2..Len(MinusKeepingResidue(POVERTY.s)) :
               MinusKeepingResidue(POVERTY.s)[i] = "-") => PovertyNum = None
        /\ PovertyNum2 # Unset =>
               PovertyNum2 = to_numeric(NumberOrNone(MinusKeepingResidue(POVERTY.s)))

C3_Witness ==
    /\ pcPov = "parsed"
    /\ POVERTY = Str(<<"1", "-", "1">>)
    /\ PovertyNum = None

\* the stripped residue is not a number: no digit at all (empty, ".", "-"),
\* several decimal points, or a minus sign after the first character
ResidueNotANumber(s) ==
    LET r == SelectSeq(s, LAMBDA c : c \in Digits \cup {".", "-"})
    IN  \/ \A i \in 1..Len(r) : r[i] \notin Digits
        \/ Cardinality({i \in 1..Len(r) : r[i] = "."}) >= 2
        \/ \E i \in 2..Len(r) : r[i] = "-"

\* C4: parse_number never raises; it gives "no value" exactly for a null
\* input and for a text whose stripped residue is not a number, and a float
\* otherwise: "$56,123" gives 56123.0 and "12.3%" gives 12.3.
C4_ParseNumberNeverRaises ==
    pcPov \in {"parsed", "scaled"} =>
        /\ PovertyNum.kind \in {"None", "float"}
        /\ PovertyNum = None <=> (POVERTY = None \/ ResidueNotANumber(POVERTY.s))
        /\ POVERTY = Str(<<"$","5","6",",","1","2","3">>) =>
               PovertyNum.kind = "float" /\ FloatEq(PovertyNum, Float(56123, 1))
        /\ POVERTY = Str(<<"1","2",".","3","%">>) =>
               PovertyNum.kind = "float" /\ FloatEq(PovertyNum, Float(123, 10))

C4_Witness ==
    /\ pcPov = "parsed"
    /\ POVERTY = Str(<<".", "-">>)
    /\ PovertyNum = None

\* C9: the poverty percentage of a known raw value v is v * 100 when
\* v <= 1.5 (1.5 gives 150.0, 0.18 gives 18.0) and v itself when v > 1.5
\* (18.0 gives 18.0); "no value" gives "no value".
C9_PovertyScale ==
    pcPov = "scaled" =>
        /\ PovertyNum = None => PovertyPct = NaN
        /\ (IsFloat(PovertyNum) /\ 2 * PovertyNum.n <= 3 * PovertyNum.d) =>
               /\ IsFloat(PovertyPct)
               /\ PovertyPct.n * PovertyNum.d = 100 * PovertyNum.n * PovertyPct.d
        /\ (IsFloat(PovertyNum) /\ 2 * PovertyNum.n > 3 * PovertyNum.d) =>
               PovertyPct = PovertyNum
        /\ POVERTY = Str(<<"1",".","5">>) => FloatEq(PovertyPct, Float(150, 1))
        /\ POVERTY = Str(<<"0",".","1","8">>) => FloatEq(PovertyPct, Float(18, 1))
        /\ POVERTY = Str(<<"1","8",".","0">>) => FloatEq(PovertyPct, Float(18, 1))

C9_Witness ==
    /\ pcPov = "scaled"
    /\ POVERTY = Str(<<"1",".","5">>)
    /\ IsFloat(PovertyPct) /\ FloatEq(PovertyPct, Float(150, 1))

\* a value between 0 and 100
OnPercentScale(v) == IsFloat(v) /\ 0 <= v.n /\ v.n <= 100 * v.d

\* C10: for every raw poverty value between 0 and 100 (a fraction or a
\* percent), the poverty percentage that is displayed and colour-coded is
\* "no value" or a number between 0 and 100.
C10_PovertyPctWithin0To100 ==
    (pcPov = "scaled" /\ OnPercentScale(PovertyNum)) =>
        /\ PovertyPct = NaN \/ OnPercentScale(PovertyPct)
        /\ PovertyNum2 = Unset \/ PovertyNum2 = NaN \/ OnPercentScale(PovertyNum2)

(***************************************************************************)
(* Claims about merge_chain                                                *)
(***************************************************************************)
HasNAME(d) == "NAME" \in d.columns
\* no two rows of the table have the same key
UniqueKeys(d) ==
    \A i, j \in 1..Len(d.rows) : d.rows[i]["NAME"] = d.rows[j]["NAME"] => i = j
KeyPresent(d, name) == \E j \in 1..Len(d.rows) : d.rows[j]["NAME"] = name

\* C5: when every attribute table has unique normalized keys, the merged
\* table has one row per reference polygon, in the reference order and with
\* its geometry; a polygon whose key is absent from a table has "no value" in
\* that table's column (and the value of its row otherwise), and a polygon
\* absent from the table of the totals has "no value" percents.
C5_MergeKeepsReferenceRows ==
    (/\ pcMerge \in {"merged", "derived"}
     /\ \A k \in 1..Len(dfs) : UniqueKeys(dfs[k])) =>
        /\ Len(Counties.rows) = Len(c_county.rows)
        /\ \A i \in 1..Len(c_county.rows) :
              /\ Counties.rows[i]["NAME"] = c_county.rows[i]["NAME"]
              /\ Counties.rows[i]["geometry"] = c_county.rows[i]["geometry"]
              /\ \A k \in 1..Len(dfs) :
                    IF KeyPresent(dfs[k], c_county.rows[i]["NAME"])
                    THEN \E j \in 1..Len(dfs[k].rows) :
                            /\ dfs[k].rows[j]["NAME"] = c_county.rows[i]["NAME"]
                            /\ Counties.rows[i][AttrColumn[k]] =
                                   dfs[k].rows[j][AttrColumn[k]]
                    ELSE Counties.rows[i][AttrColumn[k]] = NaN
              /\ (pcMerge = "derived" /\ ~KeyPresent(dfs[1], c_county.rows[i]["NAME"])) =>
                    /\ Counties.rows[i]["Under_18Per"] = NaN
                    /\ Counties.rows[i]["Over_65Per"] = NaN

\* reference keys "1", "2", "3" and totals for "1" and "3" only
C5_Witness ==
    /\ pcMerge = "derived"
    /\ Len(c_county.rows) = 3
    /\ \A i \in 1..3 : c_county.rows[i]["NAME"] = <<DigitChars[i + 1]>>
    /\ Len(dfs[1].rows) = 2
    /\ dfs[1].rows[1]["NAME"] = <<"1">> /\ dfs[1].rows[2]["NAME"] = <<"3">>
    /\ Len(Counties.rows) = 3
    /\ Counties.rows[1]["Total"] = Float(1, 1)
    /\ Counties.rows[2]["Total"] = NaN
    /\ Counties.rows[2]["Under_18Per"] = NaN
    /\ Counties.rows[3]["Total"] = Float(2, 1)

\* C6: merge_chain leaves the reference table as it is, and when any table of
\* the list lacks NAME, at whatever position, it ends in an error and no
\* merged table is bound.
C6_MergeChainFailsWithoutNAME ==
    [][pcMerge = "normalized" =>
          /\ c_county' = c_county
          /\ (\E k \in 1..Len(dfs) : ~HasNAME(dfs[k])) =>
                 (pcMerge' = "ValueError" /\ Counties' = Unset)]_vars

\* the second table is the faulty one, the first has been joined before it
C6_Witness ==
    /\ pcMerge = "ValueError"
    /\ Len(dfs) = 2
    /\ HasNAME(dfs[1]) /\ Len(dfs[1].rows) > 0
    /\ ~HasNAME(dfs[2])
    /\ Counties = Unset

(***************************************************************************)
(* Claims about the derived age metrics                                    *)
(***************************************************************************)
\* the numeric cells a row has in the configured columns
KnownCells(row, cols) == {c \in cols \cap DOMAIN row : IsFloat(row[c])}

RECURSIVE SumOfCells(_, _)
SumOfCells(row, cs) ==
    IF cs = {} THEN 0
    ELSE LET c == CHOOSE c \in cs : TRUE
         IN  row[c].n + SumOfCells(row, cs \ {c})

BandSumAsClaimed(row, cols, sum) ==
    IF KnownCells(row, cols) = {} THEN sum = NaN
    ELSE IsFloat(sum) /\ sum.n = sum.d * SumOfCells(row, KnownCells(row, cols))

\* C7: the age-band sum of a row is "no value" exactly when the row has no
\* known value in the configured columns (in particular when none of them
\* exists), and otherwise the sum of the values it has.
C7_SafeSumNoValueIffUnavailable ==
    pcMerge = "derived" =>
        \A i \in 1..Len(Counties.rows) :
            /\ BandSumAsClaimed(Counties.rows[i], u18_cols, Counties.rows[i]["Under_18"])
            /\ BandSumAsClaimed(Counties.rows[i], o65_cols, Counties.rows[i]["Over_65"])

TotalOf(row) == IF "Total" \in DOMAIN row THEN row["Total"] ELSE NaN

PercentAsClaimed(sum, total, pct) ==
    IF IsFloat(sum) /\ IsFloat(total) /\ total.n # 0
    THEN IsFloat(pct) /\ pct.n * total.n * sum.d = 100 * sum.n * total.d * pct.d
    ELSE pct = NaN

\* C8: the percent of total is sum / total * 100 when both are known and the
\* total is not zero, and "no value" when either is "no value" or the total
\* is zero, whatever the sum.
C8_PercentOfTotal ==
    pcMerge = "derived" =>
        \A i \in 1..Len(Counties.rows) :
            /\ PercentAsClaimed(Counties.rows[i]["Under_18"],
                                TotalOf(Counties.rows[i]),
                                Counties.rows[i]["Under_18Per"])
            /\ PercentAsClaimed(Counties.rows[i]["Over_65"],
                                TotalOf(Counties.rows[i]),
                                Counties.rows[i]["Over_65Per"])

(***************************************************************************)
(* Claims about the county filter                                          *)
(***************************************************************************)
\* a text left-padded with zeros to three characters
RECURSIVE ZeroPadded(_)
ZeroPadded(s) == IF Len(s) >= 3 THEN s ELSE ZeroPadded(<<"0">> \o s)

\* the county code of a cell in fixed-width zero-padded form
FixedWidthCode(cell) ==
    ZeroPadded(IF cell.kind = "int" THEN int_to_str(cell.v) ELSE cell.s)

\* C11: a tract is kept by the county filter exactly when its county code,
\* in fixed-width zero-padded form, is one of "039", "141", "099", whether
\* the code was read as a number (39) or as text ("39", "039").
C11_CountyCodesZeroPadded ==
    pcCounty = "filtered" =>
        \A i \in 1..Len(rawCOUNTYFP) :
            (i \in Range(filtered)) <=> (FixedWidthCode(rawCOUNTYFP[i]) \in county_fips)


(***************************************************************************)
(* Claims about the pantries                                               *)
(***************************************************************************)
FileNeedsGeocoding ==
    "lat" \notin pantryFile.columns \/ "long" \notin pantryFile.columns

\* row i of the pantry file ends up with both coordinates
HasCoordinates(i) ==
    IF FileNeedsGeocoding
    THEN i <= Len(calls) /\ calls[i][2] = "found"
    ELSE IsFloat(pantryFile.rows[i]["lat"]) /\ IsFloat(pantryFile.rows[i]["long"])

\* the addresses of the rows with coordinates, in the order of the file
AddressesWithCoordinates ==
    LET picked == SelectSeq([i \in 1..Len(pantryFile.rows) |-> i], HasCoordinates)
    IN  [k \in 1..Len(picked) |-> pantryFile.rows[picked[k]]["Address"]]

OwnersOf(geoms) == [k \in 1..Len(geoms) |-> geoms[k].of]

\* C13: the coverage buffer of 1609.34 m is drawn only in a projected CRS:
\* the points (geographic) are reprojected, then buffered, then the buffers
\* are reprojected back; every buffer handed to the map is geographic, and
\* there is exactly one buffer per pantry that has coordinates.
C13_BufferInProjectedCRS ==
    /\ pcPantry = "buffered" =>
          /\ IsGeographic(pantries_gdf.crs)
          /\ IsProjected(pantries_buf.crs)
    /\ pcPantry \in {"buffered", "coverage", "done"} =>
          /\ pantries_buf.kind = "layer"
          /\ \A k \in 1..Len(pantries_buf.geoms) :
                /\ pantries_buf.geoms[k].radius = MileInCentimetres
                /\ IsProjected(pantries_buf.geoms[k].drawn_in)
    /\ pcPantry \in {"coverage", "done"} =>
          /\ pantries_buf.crs = EPSG4326
          /\ OwnersOf(pantries_buf.geoms) = AddressesWithCoordinates

\* buffers were handed to the map, for some pantries but not for all
C13_Witness ==
    /\ pcPantry = "done"
    /\ Len(pantries_buf.geoms) >= 1
    /\ Len(pantries_buf.geoms) < Len(pantryFile.rows)

\* C14: addresses are geocoded one at a time in the order of the file; a
\* failed or empty lookup neither aborts the run nor stops the later
\* lookups, its row is recorded with missing coordinates, every result stays
\* with its own row, and exactly the rows with missing coordinates are left
\* out of the markers and of the buffers.
C14_GeocodeKeepsRowsAligned ==
    /\ pcPantry \notin {"GeocoderServiceError", "ValueError"}
    /\ Len(calls) <= Len(pantryFile.rows)
    /\ Len(lat) = Len(calls) /\ Len(lon) = Len(calls)
    /\ \A i \in 1..Len(calls) :
          /\ calls[i][1] = pantryFile.rows[i]["Address"]
          /\ lat[i] = IF calls[i][2] = "found"
                      THEN Location(calls[i][1]).latitude ELSE NaN
          /\ lon[i] = IF calls[i][2] = "found"
                      THEN Location(calls[i][1]).longitude ELSE NaN
    /\ (pcPantry # "read" /\ FileNeedsGeocoding) => Len(calls) = Len(pantryFile.rows)
    /\ (pcPantry = "located" /\ FileNeedsGeocoding) =>
          pantries.rows = [i \in 1..Len(pantryFile.rows) |->
                              PantryRow(pantryFile.rows[i]["Address"], lat[i], lon[i])]
    /\ pcPantry \in {"points", "buffered", "coverage", "done"} =>
          OwnersOf(pantries_gdf.geoms) = AddressesWithCoordinates
    /\ pcPantry = "done" =>
          /\ OwnersOf(markers) = AddressesWithCoordinates
          /\ OwnersOf(pantries_buf.geoms) = AddressesWithCoordinates
          /\ \A k \in 1..Len(markers) :
                markers[k].at = <<Location(markers[k].of).latitude,
                                  Location(markers[k].of).longitude>>

\* a lookup failed, a later one succeeded, and the run reached the markers
C14_Witness ==
    /\ pcPantry = "done"
    /\ \E i, j \in 1..Len(calls) :
          i < j /\ calls[i][2] = "failed" /\ calls[j][2] = "found"
    /\ Len(markers) >= 1


(***************************************************************************)
(* Claims about the layers                                                 *)
(***************************************************************************)
\* C12: every layer that declares no reference system is given one and the
\* same default, never another one per layer or per script, and is then
\* reprojected without failure; every layer prepared for the map is in
\* EPSG:4326.
C12_OneDefaultThenReprojected ==
    /\ \A a, b \in assumed : a.crs = b.crs
    /\ outcome # Raised("ValueError")
    /\ \A l \in LayerNames : layers[l] # Unset => layers[l].crs = EPSG4326

\* the optional layers of a script and the file each one comes from
OptionalSources(s) ==
    CASE s = "PythonCode2" ->
            {<<"routes", RoutesShp>>, <<"coverage", PantriesSf>>,
             <<"markers", PantriesCsv>>, <<"counties", TargetCounties>>}
      [] s = "PythonCode3" ->
            {<<"routes", RoutesShp>>, <<"counties", CountyBoundaries>>,
             <<"coverage", PantryLocations>>, <<"markers", PantryLocations>>}
      [] OTHER -> {}

\* C15: when the source file of an optional layer (bus routes, pantry
\* coverage, pantry markers, county boundaries) is absent, the run ends with
\* that layer left out, a warning issued, no failure, and the output written.
C15_AbsentOptionalLayerSkipped ==
    pcLayers \in {"done", "failed"} =>
        \A o \in OptionalSources(script) :
            ~exists(o[2]) =>
                /\ layers[o[1]] = Unset
                /\ warned # {}
                /\ outcome = Saved


(***************************************************************************)
(* Claims about fetch_acs                                                  *)
(***************************************************************************)
\* the tract rows the answers up to the i-th carried, in the order received
RECURSIVE RowsReceived(_)
RowsReceived(i) ==
    IF i = 0 THEN <<>> ELSE RowsReceived(i - 1) \o Tail(requests[i].r.body)

Succeeded(i) == requests[i].r.status = 200

\* C16: fetch_acs queries the counties one after another in the configured
\* order; a response that is not a success ends the fetch with an error; the
\* caller receives either the rows of all configured counties, in county
\* order under the header row of the response, or an error, never the rows
\* of only some counties.
C16_FetchAcsFailsFast ==
    /\ Len(requests) <= Len(COUNTIES)
    /\ \A i \in 1..Len(requests) :
          /\ requests[i].county = COUNTIES[i]
          /\ requests[i].req = Request(acsCall, COUNTIES[i])
          /\ ~Succeeded(i) => (i = Len(requests) /\ pcAcs = "raised")
    /\ pcAcs = "loop" => acsResult = Unset
    /\ pcAcs = "raised" => IsRaised(acsResult)
    /\ pcAcs = "returned" =>
          /\ Len(requests) = Len(COUNTIES)
          /\ \A i \in 1..Len(requests) : Succeeded(i)
          /\ acsResult.kind = "frame"
          /\ acsResult.columns = Head(requests[1].r.body)
          /\ acsResult.rows = RowsReceived(Len(requests))

\* a table came back that holds rows of every configured county
C16_Witness ==
    /\ pcAcs = "returned"
    /\ \A i \in 1..Len(COUNTIES) :
          \E k \in 1..Len(acsResult.rows) :
              \E j \in 1..Len(acsResult.columns) :
                  acsResult.columns[j] = "county" /\ acsResult.rows[k][j] = COUNTIES[i]

====
